---- MODULE Spec2Model ----
(***************************************************************************)
(* Medical RAG pipeline: the two orchestrators of the repository           *)
(* (MED_RAG/ragpipeline.py Medical_RAGPipeline and                         *)
(* src/utils/rag_pipeline.py MedicalRAGPipeline), the RiskManager and the  *)
(* TrustworthinessVerifier.                                                *)
(*                                                                         *)
(* Python str values are TLA+ strings; Len, SubSeq and \o act on them      *)
(* character by character.  Similarity scores are hundredths (0.5 is 50).  *)
(***************************************************************************)
EXTENDS Integers, Sequences, FiniteSets, TLC

VARIABLES
    cls,              \* class of the pipeline instance
    index_loaded,     \* vector_db.index is not None
    ctor_args,        \* arguments of the constructor call: [api_key, env]
    api_key,          \* self.api_key
    llm_loaded,       \* self.llm is not None
    risk_manager,     \* fields of self.risk_manager
    trustworthiness_verifier,  \* fields of self.trustworthiness_verifier
    query_count,      \* self.query_count
    pc,               \* "new" | "init_raised" | "idle" | "returned" | "raised"
                      \* | "stats_returned" : position of the caller
    question,         \* argument of the last query() call
    risk_assessment,  \* local of query(): what check_query_safety returned
    search_results,   \* what vector_db.search returned to retrieve_documents
    documents,        \* local of query(): what retrieve_documents returned
    validation,       \* local of query(): what validate_retrieval returned
    llm_response,     \* what llm.generate_content did during the call
    result,           \* the dict query() or get_statistics() returned
    trace,            \* the collaborator calls query() made, in order
    u_call,           \* a direct call of a component method: [op, ...arguments]
    u_pc,             \* "none" | "called" | "returned" | "repeated"
    u_ret             \* what that call returned

vars == <<cls, index_loaded, ctor_args, api_key, llm_loaded, risk_manager,
          trustworthiness_verifier, query_count, pc, question, risk_assessment,
          search_results, documents, validation, llm_response, result, trace,
          u_call, u_pc, u_ret>>

\* the attributes of the pipeline object other than query_count
object_vars == <<cls, index_loaded, api_key, llm_loaded, risk_manager,
                 trustworthiness_verifier>>

\* the frame of the running query() or get_statistics() call
frame_vars == <<question, risk_assessment, search_results, documents,
                validation, llm_response, result, trace>>

pipeline_vars == <<cls, index_loaded, ctor_args, api_key, llm_loaded,
                   query_count, pc, question, risk_assessment,
                   search_results, documents, validation, llm_response, result,
                   trace>>

unit_vars == <<u_call, u_pc, u_ret>>

\* The value of a variable that holds nothing (Python None / unbound local);
\* search_results and documents hold the empty sequence then.
None == [none |-> TRUE]

-----------------------------------------------------------------------------
(* Python str primitives                                                   *)

Char(s, i) == SubSeq(s, i, i)

UpperCase == "ABCDEFGHIJKLMNOPQRSTUVWXYZ"

LowerCase == "abcdefghijklmnopqrstuvwxyz"

Digits == {"0", "1", "2", "3", "4", "5", "6", "7", "8", "9"}

\* regex \s on str
Whitespace == {" ", "\t", "\n", "\r", "\f"}

\* str.lower() on one character
LowerChar(c) ==
    IF \E i \in 1..Len(UpperCase) : Char(UpperCase, i) = c
    THEN Char(LowerCase, CHOOSE i \in 1..Len(UpperCase) : Char(UpperCase, i) = c)
    ELSE c

RECURSIVE lower(_)
\* str.lower(): character by character (taken by halves, so that long texts
\* do not nest deeply)
lower(s) ==
    IF s = "" THEN ""
    ELSE IF Len(s) = 1 THEN LowerChar(s)
    ELSE lower(SubSeq(s, 1, Len(s) \div 2))
         \o lower(SubSeq(s, Len(s) \div 2 + 1, Len(s)))

RECURSIVE Repeat(_, _)
\* s * n
Repeat(s, n) ==
    IF n = 0 THEN ""
    ELSE IF n % 2 = 1 THEN s \o Repeat(s, n - 1)
    ELSE LET h == Repeat(s, n \div 2) IN h \o h

\* the least element of a non-empty set of integers
Least(S) == CHOOSE k \in S : \A j \in S : k <= j

\* s.startswith(needle, k - 1)
StartsAt(s, k, needle) ==
    /\ k + Len(needle) - 1 <= Len(s)
    /\ SubSeq(s, k, k + Len(needle) - 1) = needle

\* str.find(needle, i): the least index >= i where needle starts, 0 if none
FindFrom(hay, needle, i) ==
    LET starts == {k \in i..Len(hay) : StartsAt(hay, k, needle)}
    IN  IF starts = {} THEN 0 ELSE Least(starts)

\* needle in hay
StrIn(needle, hay) == FindFrom(hay, needle, 1) # 0

\* the first index >= i of s whose character is not in class (Len(s)+1 if none)
SkipWhile(s, i, class) ==
    Least({k \in i..(Len(s) + 1) : k = Len(s) + 1 \/ Char(s, k) \notin class})

RECURSIVE FindAllPMID_loose(_, _)
\* re.findall(r'PMID[:\s]*(\d+)', s): the colon optional
FindAllPMID_loose(s, i) ==
    LET at == FindFrom(s, "PMID", i)
        d0 == SkipWhile(s, at + 4, Whitespace \cup {":"})
        d1 == SkipWhile(s, d0, Digits)
    IN  IF at = 0 THEN <<>>
        ELSE IF d1 > d0 THEN <<SubSeq(s, d0, d1 - 1)>> \o FindAllPMID_loose(s, d1)
        ELSE FindAllPMID_loose(s, at + 1)

RECURSIVE FindAllPMID(_, _)
\* re.findall(r'PMID:\s*(\d+)', s) from index i on: the digit groups, in order
FindAllPMID(s, i) ==
    LET at == FindFrom(s, "PMID:", i)
        d0 == SkipWhile(s, at + 5, Whitespace)
        d1 == SkipWhile(s, d0, Digits)
    IN  IF at = 0 THEN <<>>
        ELSE IF d1 > d0 THEN <<SubSeq(s, d0, d1 - 1)>> \o FindAllPMID(s, d1)
        ELSE FindAllPMID(s, at + 1)

Range(seq) == {seq[i] : i \in 1..Len(seq)}


\* for x in set(seq): the distinct elements
ToSet(seq) == Range(seq)

\* str(n) for the small non-negative integers the model formats
IntToStr(n) ==
    IF n < 10 THEN Char("0123456789", n + 1)
    ELSE Char("0123456789", (n \div 10) + 1) \o Char("0123456789", (n % 10) + 1)

-----------------------------------------------------------------------------
(* RiskManager (MED_RAG/risk_model.py)                                     *)

emergency_keywords ==
    <<"emergency", "urgent", "dying", "overdose", "suicide", "severe pain">>

diagnostic_keywords ==
    <<"do i have", "am i", "diagnose me", "what is wrong with me">>

treatment_keywords ==
    <<"should i take", "how much", "dosage", "can i stop">>

EmergencyWarning ==
    "EMERGENCY: This system is not for emergencies. Call 911 or emergency services."

DiagnosticWarning ==
    "WARNING: This system provides information only, not diagnosis."

TreatmentWarning ==
    "CAUTION: Consult healthcare provider for treatment decisions."

\* any(keyword in text for keyword in keywords)
AnyKeywordIn(keywords, text) ==
    \E i \in 1..Len(keywords) : StrIn(keywords[i], text)

\* risk_model.py:18-44 on the text the keywords are matched against
assess(q) ==
    LET diag == AnyKeywordIn(diagnostic_keywords, q)
        trt  == AnyKeywordIn(treatment_keywords, q)
        w1   == IF diag THEN <<DiagnosticWarning>> ELSE <<>>
        r1   == IF diag THEN "high" ELSE "low"
        w2   == IF trt THEN w1 \o <<TreatmentWarning>> ELSE w1
        r2   == IF trt THEN "medium" ELSE r1
    IN  IF AnyKeywordIn(emergency_keywords, q)
        THEN [safe |-> FALSE, warnings |-> <<EmergencyWarning>>,
              risk_level |-> "critical"]
        ELSE [safe |-> TRUE, warnings |-> w2, risk_level |-> r2]

\* check_query_safety matching the keywords against the query as typed
check_query_safety_nolower(query) == assess(query)

\* check_query_safety testing the treatment tier before the diagnostic tier
check_query_safety_treatment_first(query) ==
    LET q    == lower(query)
        diag == AnyKeywordIn(diagnostic_keywords, q)
        trt  == AnyKeywordIn(treatment_keywords, q)
        w1   == IF trt THEN <<TreatmentWarning>> ELSE <<>>
        r1   == IF trt THEN "medium" ELSE "low"
        w2   == IF diag THEN w1 \o <<DiagnosticWarning>> ELSE w1
        r2   == IF diag THEN "high" ELSE r1
    IN  IF AnyKeywordIn(emergency_keywords, q)
        THEN [safe |-> FALSE, warnings |-> <<EmergencyWarning>>,
              risk_level |-> "critical"]
        ELSE [safe |-> TRUE, warnings |-> w2, risk_level |-> r2]

\* check_query_safety refusing the diagnostic tier as well
check_query_safety_blockhigh(query) ==
    LET a == assess(lower(query))
    IN  IF a.risk_level = "high" THEN [a EXCEPT !.safe = FALSE] ELSE a

\* check_query_safety whose emergency branch goes on to the diagnostic and
\* treatment tiers and keeps their warnings
check_query_safety_falling_through(query) ==
    LET q  == lower(query)
        a  == assess(q)
        w1 == IF AnyKeywordIn(diagnostic_keywords, q)
              THEN <<DiagnosticWarning>> ELSE <<>>
        w2 == IF AnyKeywordIn(treatment_keywords, q)
              THEN <<TreatmentWarning>> ELSE <<>>
    IN  IF a.risk_level = "critical"
        THEN [a EXCEPT !.warnings = @ \o w1 \o w2]
        ELSE a

check_query_safety(query) == assess(lower(query))

\* RiskManager.__init__: the fields of a new RiskManager (0.5 in hundredths)
RiskManager_init ==
    [min_similarity_threshold |-> 50, min_documents_required |-> 1,
     max_answer_length |-> 1000, disclaimer_shown |-> FALSE]

\* a check_query_safety call that also notes the disclaimer as shown
check_query_safety_call_noting(self, query) ==
    [self |-> [self EXCEPT !.disclaimer_shown = TRUE],
     ret |-> check_query_safety(query)]

\* self.check_query_safety(query) as the caller sees it: the RiskManager after
\* the call and the dict returned; the body builds the dict anew (lines 18-22)
\* and reads and assigns no attribute of self
check_query_safety_call(self, query) ==
    [self |-> self, ret |-> check_query_safety(query)]

\* the value of a run of decimal digits, '_' skipped
RECURSIVE DigitsValue(_)
DigitsValue(s) ==
    IF s = "" THEN 0
    ELSE LET c    == Char(s, Len(s))
             rest == DigitsValue(SubSeq(s, 1, Len(s) - 1))
         IN  IF c = "_" THEN rest
             ELSE 10 * rest + (CHOOSE d \in 0..9 : Char("0123456789", d + 1) = c)

\* int(t) of a str: blanks around, a sign, digits with single '_' between
\* them; ok is FALSE where int raises ValueError
ParseInt(t) ==
    LET a    == SkipWhile(t, 1, Whitespace)
        b    == IF a > Len(t) THEN 0
                ELSE CHOOSE k \in a..Len(t) :
                       /\ Char(t, k) \notin Whitespace
                       /\ \A j \in (k + 1)..Len(t) : Char(t, j) \in Whitespace
        core == IF a > Len(t) THEN "" ELSE SubSeq(t, a, b)
        sgn  == core # "" /\ Char(core, 1) \in {"+", "-"}
        body == IF sgn THEN SubSeq(core, 2, Len(core)) ELSE core
        wellformed ==
            /\ body # ""
            /\ \A i \in 1..Len(body) : Char(body, i) \in Digits \cup {"_"}
            /\ Char(body, 1) # "_"
            /\ Char(body, Len(body)) # "_"
            /\ \A i \in 1..(Len(body) - 1) :
                  ~(Char(body, i) = "_" /\ Char(body, i + 1) = "_")
    IN  IF ~wellformed THEN [ok |-> FALSE, v |-> 0]
        ELSE [ok |-> TRUE,
              v |-> IF sgn /\ Char(core, 1) = "-" THEN 0 - DigitsValue(body)
                    ELSE DigitsValue(body)]

\* s[:4]
FirstFour(s) == IF Len(s) <= 4 THEN s ELSE SubSeq(s, 1, 4)

\* validate_retrieval calling a retrieval with low-confidence sources invalid
validate_retrieval_lowinvalid(self, documents_, current_year) ==
    LET n   == Len(documents_)
        low == {i \in 1..n :
                  documents_[i].similarity_score < self.min_similarity_threshold}
        old == {i \in 1..n :
                  LET y == ParseInt(FirstFour(documents_[i].publication_date))
                  IN  y.ok /\ current_year - y.v > 5}
    IN  [valid |-> ~(n < self.min_documents_required) /\ low = {},
         issues |->
            (IF n < self.min_documents_required
             THEN <<"Insufficient sources: " \o IntToStr(n) \o " found, need "
                    \o IntToStr(self.min_documents_required)>>
             ELSE <<>>)
            \o (IF low # {}
                THEN <<"WARNING: " \o IntToStr(Cardinality(low))
                       \o " low-confidence sources">>
                ELSE <<>>)
            \o (IF old # {}
                THEN <<"INFO: " \o IntToStr(Cardinality(old))
                       \o " sources older than 5 years">>
                ELSE <<>>)]

\* validate_retrieval(documents) of the RiskManager self, datetime.now().year
\* being current_year; a date int() cannot read is passed over (lines 68-73)
validate_retrieval(self, documents_, current_year) ==
    LET n   == Len(documents_)
        low == {i \in 1..n :
                  documents_[i].similarity_score < self.min_similarity_threshold}
        old == {i \in 1..n :
                  LET y == ParseInt(FirstFour(documents_[i].publication_date))
                  IN  y.ok /\ current_year - y.v > 5}
    IN  [valid |-> ~(n < self.min_documents_required),
         issues |->
            (IF n < self.min_documents_required
             THEN <<"Insufficient sources: " \o IntToStr(n) \o " found, need "
                    \o IntToStr(self.min_documents_required)>>
             ELSE <<>>)
            \o (IF low # {}
                THEN <<"WARNING: " \o IntToStr(Cardinality(low))
                       \o " low-confidence sources">>
                ELSE <<>>)
            \o (IF old # {}
                THEN <<"INFO: " \o IntToStr(Cardinality(old))
                       \o " sources older than 5 years">>
                ELSE <<>>)]

absolute_words == <<"always", "never", "definitely", "certainly", "guaranteed">>

uncertainty_phrases ==
    <<"insufficient information", "not enough", "cannot determine", "unclear">>

\* check_answer_safety calling an answer with absolute statements unsafe
check_answer_safety_absolute_unsafe(self, answer, citations) ==
    LET flag(b, f) == IF b THEN <<f>> ELSE <<>>
        absolute == AnyKeywordIn(absolute_words, lower(answer))
    IN  [safe |-> DOMAIN citations # {} /\ ~absolute,
         flags |-> flag(DOMAIN citations = {}, "RISK: Answer has no citations")
                   \o flag(absolute,
                           "WARNING: Answer contains absolute statements")
                   \o flag(AnyKeywordIn(uncertainty_phrases, lower(answer)),
                           "INFO: Answer indicates uncertainty (GOOD)")
                   \o flag(Len(answer) > self.max_answer_length,
                           "WARNING: Answer unusually long, verify accuracy")]

\* check_answer_safety(answer, citations) of the RiskManager self
check_answer_safety(self, answer, citations) ==
    LET flag(b, f) == IF b THEN <<f>> ELSE <<>>
    IN  [safe |-> DOMAIN citations # {},
         flags |-> flag(DOMAIN citations = {}, "RISK: Answer has no citations")
                   \o flag(AnyKeywordIn(absolute_words, lower(answer)),
                           "WARNING: Answer contains absolute statements")
                   \o flag(AnyKeywordIn(uncertainty_phrases, lower(answer)),
                           "INFO: Answer indicates uncertainty (GOOD)")
                   \o flag(Len(answer) > self.max_answer_length,
                           "WARNING: Answer unusually long, verify accuracy")]

-----------------------------------------------------------------------------
(* Documents and the retrieval oracle (src/utils/vector_db_utils.py)       *)

\* A Python value used as a pmid: a str or an int, v its decimal text.
PyStr(s) == [t |-> "str", v |-> s]

PyInt(s) == [t |-> "int", v |-> s]

\* str(x)
str(x) == x.v

\* self.metadata: the rows of the literature table
metadata ==
    << [pmid |-> PyStr("111"), title |-> "Metformin",
        abstract |-> "Metformin lowers glucose. It may help. More work needed.",
        specialty |-> "Endocrinology", journal |-> "BMJ",
        publication_date |-> "2015-03-01"],
       [pmid |-> PyInt("222"), title |-> "Stroke",
        abstract |-> "Thrombolysis is used",
        specialty |-> "Neurology", journal |-> "Lancet",
        publication_date |-> "2024-01-15"],
       [pmid |-> PyStr("333"), title |-> "Flu",
        abstract |-> "Rest and fluids. ",
        specialty |-> "General", journal |-> "JAMA",
        publication_date |-> "n.d."] >>

\* similarity scores the index may report, in hundredths
Scores == {30, 50, 90}

\* top_k=3 (constructor default, and what main.py passes)
top_k == 3

\* similarity_threshold=0.5, in hundredths
similarity_threshold == 50

\* What index.search may hand back: at most k (row, score) pairs, rows distinct.
FaissHits(k) ==
    UNION { { h \in [1..n -> (1..Len(metadata)) \X Scores] :
                \A i, j \in 1..n : i # j => h[i][1] # h[j][1] } : n \in 0..k }

\* MedicalVectorDB.search, lines 77-92: the hits as result dicts
FormatHits(hits) ==
    [ i \in 1..Len(hits) |->
        LET row == metadata[hits[i][1]]
        IN  [rank |-> i, pmid |-> row.pmid, title |-> row.title,
             abstract |-> row.abstract, specialty |-> row.specialty,
             journal |-> row.journal, publication_date |-> row.publication_date,
             similarity_score |-> hits[i][2]] ]

\* MedicalVectorDB.search: raises ValueError when the index is not loaded
search(loaded, hits) ==
    IF ~loaded THEN [raised |-> TRUE, error |-> "ValueError"]
    ELSE [raised |-> FALSE, results |-> FormatHits(hits)]

-----------------------------------------------------------------------------
(* Steps shared by both pipeline classes                                   *)

\* retrieve_documents keeping only the scores strictly above the threshold
retrieve_documents_strict(results) ==
    SelectSeq(results, LAMBDA r : r.similarity_score > similarity_threshold)

\* retrieve_documents without the filter
retrieve_documents_nofilter(results) == results

\* [r for r in results if r['similarity_score'] >= self.similarity_threshold]
retrieve_documents(results) ==
    SelectSeq(results, LAMBDA r : r.similarity_score >= similarity_threshold)

NoLiterature == "No relevant medical literature found."

\* one f-string block of format_context
DocumentBlock(i, doc) ==
    "\n[Document " \o IntToStr(i) \o "]\nPMID: " \o str(doc.pmid)
    \o "\nTitle: " \o doc.title \o "\nJournal: " \o doc.journal
    \o "\nSpecialty: " \o doc.specialty \o "\n\nAbstract:\n" \o doc.abstract
    \o "\n\n---"

RECURSIVE JoinBlocks(_, _)
\* "\n".join(context_parts) from block i on
JoinBlocks(documents_, i) ==
    IF i > Len(documents_) THEN ""
    ELSE DocumentBlock(i, documents_[i])
         \o (IF i < Len(documents_) THEN "\n" ELSE "")
         \o JoinBlocks(documents_, i + 1)

\* format_context serializing the documents last to first
format_context_reversed(documents_) ==
    IF documents_ = <<>> THEN NoLiterature
    ELSE JoinBlocks([i \in 1..Len(documents_) |->
                        documents_[Len(documents_) + 1 - i]], 1)

format_context(documents_) ==
    IF documents_ = <<>> THEN NoLiterature ELSE JoinBlocks(documents_, 1)

-----------------------------------------------------------------------------
(* The text-generation oracle                                              *)

\* Texts llm.generate_content may answer with.
LLMTexts ==
    { "",
      "Metformin lowers glucose [PMID: 111]. [PMID: 999]",
      "It may help [PMID:222] and [PMID: 333].",
      "See PMID 111 and pmid: 333",
      "[PMID: 111] again [PMID:\n111]",
      "Evidence is unclear." }

\* One call of llm.generate_content: it raises, or returns a response with .text
LLMOutcomes ==
    {[raised |-> TRUE, msg |-> "quota exceeded"]}
    \cup {[raised |-> FALSE, text |-> t] : t \in LLMTexts}

-----------------------------------------------------------------------------
(* Medical_RAGPipeline (MED_RAG/ragpipeline.py)                            *)

\* generate_answer handing back the exception's message alone
Medical_generate_answer_bare(llm) == IF llm.raised THEN llm.msg ELSE llm.text

\* generate_answer: the oracle's text, or the error string
Medical_generate_answer(llm) ==
    IF llm.raised THEN "Error generating answer: " \o llm.msg ELSE llm.text

\* the citation dict built for pmid from the document doc
Citation(pmid, doc) ==
    [pmid |-> pmid, title |-> doc.title, journal |-> doc.journal,
     publication_date |-> doc.publication_date,
     url |-> "https://pubmed.ncbi.nlm.nih.gov/" \o pmid \o "/"]

\* next((d for d in documents if ...), None), given the indices of the
\* documents that match: the first of them, 0 for None
FirstIndex(matching) == IF matching = {} THEN 0 ELSE Least(matching)

\* extract_citations keeping every mentioned PMID, matched or not
Medical_extract_citations_unchecked(answer, documents_) ==
    [ p \in ToSet(FindAllPMID(answer, 1)) |->
        [pmid |-> p, title |-> "", journal |-> "", publication_date |-> "",
         url |-> "https://pubmed.ncbi.nlm.nih.gov/" \o p \o "/"] ]

\* extract_citations: d['pmid'] == pmid compares the document's value with a str
Medical_extract_citations(answer, documents_) ==
    LET mentioned_pmids == FindAllPMID(answer, 1)
        found(p) == FirstIndex({i \in 1..Len(documents_) :
                                    documents_[i].pmid = PyStr(p)})
    IN  [ p \in {m \in ToSet(mentioned_pmids) : found(m) # 0} |->
            Citation(p, documents_[found(p)]) ]

\* the blocked exit answering like the empty exit
BlockedResult_noanswer(q, ra) ==
    [question |-> q, answer |-> NoLiterature, citations |-> <<>>,
     sources |-> <<>>, risk_level |-> "critical", safe |-> FALSE]

\* query() lines 136-143
BlockedResult(q, ra) ==
    [question |-> q, answer |-> ra.warnings[1], citations |-> <<>>,
     sources |-> <<>>, risk_level |-> "critical", safe |-> FALSE]

\* query() lines 162-169
EmptyResult(q) ==
    [question |-> q, answer |-> NoLiterature, citations |-> <<>>,
     sources |-> <<>>, num_sources |-> 0, cost |-> 0]

\* the final result handing back no sources
AnswerResult_nosources(q, answer, citations, documents_) ==
    [question |-> q, answer |-> answer, citations |-> citations,
     sources |-> <<>>, num_sources |-> Len(documents_), cost |-> 0]

\* query() lines 198-205
AnswerResult(q, answer, citations, documents_) ==
    [question |-> q, answer |-> answer, citations |-> citations,
     sources |-> documents_, num_sources |-> Len(documents_), cost |-> 0]

-----------------------------------------------------------------------------
(* MedicalRAGPipeline (src/utils/rag_pipeline.py), used by main.py         *)

\* where (.+?)(?=\n---|\Z) started at i ends: the least e >= i followed by
\* "\n---" or by the end of the text
LazyEnd(s, i) ==
    Least({e \in i..Len(s) : e = Len(s) \/ StartsAt(s, e + 1, "\n---")})

RECURSIVE FindAllAbstract(_, _)
\* re.findall(r'Abstract:\s*(.+?)(?=\n---|\Z)', s, re.DOTALL) from index i on
FindAllAbstract(s, i) ==
    LET at == FindFrom(s, "Abstract:", i)
        d0 == SkipWhile(s, at + 9, Whitespace)
        e  == LazyEnd(s, d0)
    IN  IF at = 0 THEN <<>>
        ELSE IF d0 <= Len(s)
        THEN <<SubSeq(s, d0, e)>> \o FindAllAbstract(s, e + 1)
        ELSE IF d0 > at + 9
        THEN <<Char(s, Len(s))>>      \* \s* gives back its last character
        ELSE <<>>

\* str.strip()
strip(s) ==
    LET a == SkipWhile(s, 1, Whitespace)
        b == CHOOSE k \in 0..Len(s) :
                /\ \A j \in (k + 1)..Len(s) : Char(s, j) \in Whitespace
                /\ (k = 0 \/ Char(s, k) \notin Whitespace)
    IN  IF a > b THEN "" ELSE SubSeq(s, a, b)

\* '. '.join(s.split('. ')[:2]): s up to its second '. ', or all of s
FirstTwoSentences(s) ==
    LET i1 == FindFrom(s, ". ", 1)
        i2 == FindFrom(s, ". ", i1 + 2)
    IN  IF i1 = 0 \/ i2 = 0 THEN s ELSE SubSeq(s, 1, i2 - 1)

Min(a, b) == IF a < b THEN a ELSE b

RECURSIVE SummaryParts(_, _, _, _)
\* the loop of lines 133-136 from pair i on, each part preceded by ' '
SummaryParts(pmids, abstracts, i, n) ==
    IF i > n THEN ""
    ELSE " " \o FirstTwoSentences(strip(abstracts[i])) \o ". [PMID: "
         \o pmids[i] \o "]" \o SummaryParts(pmids, abstracts, i + 1, n)

\* lines 116-140: the extractive summary built from the context
FallbackAnswer(context) ==
    LET pmids     == FindAllPMID(context, 1)
        abstracts == FindAllAbstract(context, 1)
        n         == Min(3, Min(Len(pmids), Len(abstracts)))
    IN  "Based on medical literature review:"
        \o SummaryParts(pmids, abstracts, 1, n)
        \o " \n\nThis summary is based on " \o IntToStr(Len(pmids))
        \o " research papers. See source documents for complete details."

\* generate_answer: the oracle's text when it gives one, else the fallback
Utils_generate_answer(context, llm) ==
    IF ~llm.raised /\ llm.text # "" THEN llm.text ELSE FallbackAnswer(context)

\* extract_citations: str(d['pmid']) == pmid_str
Utils_extract_citations(answer, documents_) ==
    LET mentioned_pmids == FindAllPMID(answer, 1)
        found(p) == FirstIndex({i \in 1..Len(documents_) :
                                    str(documents_[i].pmid) = p})
    IN  [ p \in {m \in ToSet(mentioned_pmids) : found(m) # 0} |->
            Citation(p, documents_[found(p)]) ]

-----------------------------------------------------------------------------
(* TrustworthinessVerifier (MED_RAG/trust_model.py)                        *)

\* a / b * 100 kept exact: the fraction (100 a) / b
Percent(a, b) == [num |-> 100 * a, den |-> b]

Zero == [num |-> 0, den |-> 1]

\* verify_citations counting the mentions instead of the distinct PMIDs cited
verify_citations_mentions(answer, documents_) ==
    LET mentioned    == FindAllPMID(answer, 1)
        cited_pmids  == {PyStr(p) : p \in ToSet(mentioned)}
        source_pmids == {documents_[i].pmid : i \in 1..Len(documents_)}
        invalid      == cited_pmids \ source_pmids
        n_valid      == Cardinality({i \in 1..Len(mentioned) :
                                        PyStr(mentioned[i]) \in source_pmids})
    IN  [valid |-> invalid = {},
         total_citations |-> Cardinality(cited_pmids),
         valid_citations |-> n_valid,
         invalid_citations |-> invalid,
         uncited_sources |-> source_pmids \ cited_pmids,
         citation_accuracy |->
            IF cited_pmids # {} THEN Percent(n_valid, Cardinality(cited_pmids))
            ELSE Zero]

\* verify_citations with the two differences exchanged
verify_citations_swapped(answer, documents_) ==
    LET cited_pmids  == {PyStr(p) : p \in ToSet(FindAllPMID(answer, 1))}
        source_pmids == {documents_[i].pmid : i \in 1..Len(documents_)}
        invalid      == source_pmids \ cited_pmids
    IN  [valid |-> invalid = {},
         total_citations |-> Cardinality(cited_pmids),
         valid_citations |-> Cardinality(cited_pmids \ invalid),
         invalid_citations |-> invalid,
         uncited_sources |-> cited_pmids \ source_pmids,
         citation_accuracy |->
            IF cited_pmids # {}
            THEN Percent(Cardinality(cited_pmids \ invalid), Cardinality(cited_pmids))
            ELSE Zero]

\* verify_citations; the two lists are built from sets, so their order is not
\* determined and they are kept as sets
\* verify_citations reporting every answer as valid
verify_citations_always_valid(answer, documents_) ==
    LET cited_pmids       == {PyStr(p) : p \in ToSet(FindAllPMID(answer, 1))}
        source_pmids      == {documents_[i].pmid : i \in 1..Len(documents_)}
        invalid_citations == cited_pmids \ source_pmids
    IN  [valid |-> TRUE,
         total_citations |-> Cardinality(cited_pmids),
         valid_citations |-> Cardinality(cited_pmids \ invalid_citations),
         invalid_citations |-> invalid_citations,
         uncited_sources |-> source_pmids \ cited_pmids,
         citation_accuracy |->
            IF cited_pmids # {}
            THEN Percent(Cardinality(cited_pmids \ invalid_citations),
                         Cardinality(cited_pmids))
            ELSE Zero]

verify_citations(answer, documents_) ==
    LET cited_pmids       == {PyStr(p) : p \in ToSet(FindAllPMID(answer, 1))}
        source_pmids      == {documents_[i].pmid : i \in 1..Len(documents_)}
        invalid_citations == cited_pmids \ source_pmids
        uncited_sources   == source_pmids \ cited_pmids
    IN  [valid |-> Cardinality(invalid_citations) = 0,
         total_citations |-> Cardinality(cited_pmids),
         valid_citations |-> Cardinality(cited_pmids \ invalid_citations),
         invalid_citations |-> invalid_citations,
         uncited_sources |-> uncited_sources,
         citation_accuracy |->
            IF cited_pmids # {}
            THEN Percent(Cardinality(cited_pmids \ invalid_citations),
                         Cardinality(cited_pmids))
            ELSE Zero]

\* TrustworthinessVerifier.__init__: the fields of a new verifier
TrustworthinessVerifier_init == [verification_log |-> <<>>]

\* a verify_citations call that also appends its report to verification_log
verify_citations_call_logging(self, answer, documents_) ==
    LET ret == verify_citations(answer, documents_)
    IN  [self |-> [self EXCEPT !.verification_log = Append(@, ret)],
         documents |-> documents_, ret |-> ret]

\* self.verify_citations(answer, documents) as the caller sees it: the verifier
\* and the documents list after the call, and what the call returned; the body
\* assigns no attribute of self and builds new lists from its arguments
verify_citations_call(self, answer, documents_) ==
    [self |-> self, documents |-> documents_,
     ret |-> verify_citations(answer, documents_)]

\* the lexicon of check_transparency, line 64
hedging_words == <<"may", "suggest", "indicate", "possible", "unclear">>

\* max_score = 5
max_score == 5

\* check_transparency taking all(...) of no source for true
check_transparency_vacuous(result_) ==
    LET has(b)  == IF b THEN 1 ELSE 0
        miss(b, issue) == IF b THEN <<>> ELSE <<issue>>
        srcs == result_.sources
        p1 == DOMAIN result_.citations # {}
        p2 == Len(srcs) > 0
        p3 == \A i \in 1..Len(srcs) : "similarity_score" \in DOMAIN srcs[i]
        p4 == \A i \in 1..Len(srcs) :
                 "journal" \in DOMAIN srcs[i] /\ "publication_date" \in DOMAIN srcs[i]
        p5 == AnyKeywordIn(hedging_words, lower(result_.answer))
        transparency_score == has(p1) + has(p2) + has(p3) + has(p4) + has(p5)
    IN  [ret |-> [transparency_score |-> transparency_score,
                  max_score |-> max_score,
                  percentage |-> Percent(transparency_score, max_score),
                  issues |-> miss(p1, "Missing citations")
                             \o miss(p2, "Missing source documents")
                             \o miss(p3, "Missing similarity scores")
                             \o miss(p4, "Missing metadata")
                             \o miss(p5, "No uncertainty indicators")],
         result |-> result_]

\* check_transparency(result) as the caller sees it: ret is the dict it
\* returns, result the bundle after the call (the body assigns to no key of it)
check_transparency(result_) ==
    LET has(b)  == IF b THEN 1 ELSE 0
        miss(b, issue) == IF b THEN <<>> ELSE <<issue>>
        srcs == result_.sources
        p1 == DOMAIN result_.citations # {}
        p2 == Len(srcs) > 0
        p3 == /\ Len(srcs) > 0
              /\ \A i \in 1..Len(srcs) : "similarity_score" \in DOMAIN srcs[i]
        p4 == /\ Len(srcs) > 0
              /\ \A i \in 1..Len(srcs) :
                   "journal" \in DOMAIN srcs[i] /\ "publication_date" \in DOMAIN srcs[i]
        p5 == AnyKeywordIn(hedging_words, lower(result_.answer))
        transparency_score == has(p1) + has(p2) + has(p3) + has(p4) + has(p5)
    IN  [ret |-> [transparency_score |-> transparency_score,
                  max_score |-> max_score,
                  percentage |-> Percent(transparency_score, max_score),
                  issues |-> miss(p1, "Missing citations")
                             \o miss(p2, "Missing source documents")
                             \o miss(p3, "Missing similarity scores")
                             \o miss(p4, "Missing metadata")
                             \o miss(p5, "No uncertainty indicators")],
         result |-> result_]

-----------------------------------------------------------------------------
(* Construction and statistics of both pipeline classes                    *)

\* bool(x) of an optional str: None and '' are falsy
Truthy(x) == x # None /\ x.v # ""

\* x or y
Or(x, y) == IF Truthy(x) THEN x ELSE y

\* __init__ without the check of the key
Pipeline_init_unchecked(api_key_, env) ==
    [raised |-> FALSE, api_key |-> Or(api_key_, env), llm_loaded |-> TRUE]

\* __init__(vector_db, api_key) with GEMINI_API_KEY holding env: the ValueError
\* of line 21 leaves it before _load_llm is reached
Pipeline_init(api_key_, env) ==
    LET key == Or(api_key_, env)
    IN  IF ~Truthy(key)
        THEN [raised |-> TRUE, api_key |-> key, llm_loaded |-> FALSE]
        ELSE [raised |-> FALSE, api_key |-> key, llm_loaded |-> TRUE]

\* self.query_count += 1 counting nothing
query_count_incremented_not(count) == count

\* self.query_count += 1
query_count_incremented(count) == count + 1

\* get_statistics()
get_statistics(count) ==
    [total_queries |-> count, total_cost |-> 0, avg_cost_per_query |-> 0]

-----------------------------------------------------------------------------
(* Inputs                                                                  *)

MaxQueries == 2

MaxSegs == 2

MaxDocs == 2

MaxWords == 3

\* Questions a caller may ask.
Questions ==
    { "What is the dosage for metformin?",
      "I think I am dying, severe pain",
      "URGENT: do I have flu?",
      "Is this an Emergency",
      "OVERDOSE?",
      "suicide",
      "Am I sick and how much rest?",
      "What causes heart disease?",
      "Do I have diabetes?",
      "severe  pain at night" }

\* Pieces generated answers are made of; cites is the set of PMIDs the piece
\* cites in the form PMID: <digits>, loose the set of those it names in the
\* form PMID <digits>, without the colon.
AnswerSegs ==
    << [text |-> "Glucose falls ", cites |-> {}, loose |-> {}],
       [text |-> "[PMID: 111].", cites |-> {"111"}, loose |-> {}],
       [text |-> "[PMID:999] ", cites |-> {"999"}, loose |-> {}],
       [text |-> "(PMID:  222, PMID: 111) ", cites |-> {"222", "111"},
        loose |-> {}],
       [text |-> "PMID 333 ", cites |-> {}, loose |-> {"333"}],
       [text |-> "pmid: 111 ", cites |-> {}, loose |-> {}] >>

SegSeqs == UNION {[1..n -> 1..Len(AnswerSegs)] : n \in 0..MaxSegs}

RECURSIVE AnswerText(_)
\* the answer a sequence of pieces spells
AnswerText(segs) ==
    IF segs = <<>> THEN ""
    ELSE AnswerSegs[Head(segs)].text \o AnswerText(Tail(segs))

\* the PMIDs a sequence of pieces cites
AnswerCites(segs) == UNION {AnswerSegs[segs[i]].cites : i \in 1..Len(segs)}

\* the PMIDs a sequence of pieces names without a colon
AnswerLoose(segs) == UNION {AnswerSegs[segs[i]].loose : i \in 1..Len(segs)}

\* Document sequences handed to the citation operations: rows distinct.
DocSeqs ==
    { FormatHits([i \in 1..Len(rows) |-> <<rows[i], 90>>]) :
        rows \in UNION { {r \in [1..n -> 1..Len(metadata)] :
                            \A i, j \in 1..n : i # j => r[i] # r[j]} :
                         n \in 0..MaxDocs } }

\* Scores of the direct retrieve_documents calls.
UnitScores == {30, 50, 60, 90}

UnitHits ==
    UNION { { h \in [1..n -> (1..Len(metadata)) \X UnitScores] :
                \A i, j \in 1..n : i # j => h[i][1] # h[j][1] } : n \in 0..top_k }

\* Words the queries handed to check_query_safety are made of.
QueryWords ==
    <<"Do I", "have", "Am", "i", "Dosage", "how much", "dying", "flu">>

WordSeqs == UNION {[1..n -> 1..Len(QueryWords)] : n \in 0..MaxWords}

RECURSIVE JoinWords(_, _)
\* the words from the i-th on, one blank between two words
JoinWords(ws, i) ==
    IF i > Len(ws) THEN ""
    ELSE QueryWords[ws[i]] \o (IF i < Len(ws) THEN " " ELSE "")
         \o JoinWords(ws, i + 1)

\* A row of the literature table whose abstract names another article.
erratum_row ==
    [pmid |-> PyStr("444"), title |-> "Erratum",
     abstract |-> "Corrects PMID: 999. See text.",
     specialty |-> "General", journal |-> "BMJ",
     publication_date |-> "2020-01-01"]

\* Document sequences whose context generate_answer is handed: rows distinct.
FallbackDocSeqs ==
    LET rows == metadata \o <<erratum_row>>
    IN  { [i \in 1..Len(r) |->
             [rank |-> i, pmid |-> rows[r[i]].pmid, title |-> rows[r[i]].title,
              abstract |-> rows[r[i]].abstract,
              specialty |-> rows[r[i]].specialty, journal |-> rows[r[i]].journal,
              publication_date |-> rows[r[i]].publication_date,
              similarity_score |-> 90]] :
          r \in UNION { {x \in [1..n -> 1..Len(rows)] :
                           \A i, j \in 1..n : i # j => x[i] # x[j]} :
                        n \in 1..MaxDocs } }

\* Source dicts a result bundle may hold: a complete one, and one lacking each
\* key check_transparency looks for.
SourceVariants ==
    LET full == [pmid |-> PyStr("111"), title |-> "Metformin", journal |-> "BMJ",
                 publication_date |-> "2015-03-01", similarity_score |-> 90]
    IN  << full,
           [k \in DOMAIN full \ {"similarity_score"} |-> full[k]],
           [k \in DOMAIN full \ {"journal"} |-> full[k]],
           [k \in DOMAIN full \ {"publication_date"} |-> full[k]] >>

\* Answers of the bundles handed to check_transparency.
AuditAnswers ==
    {"", "It MAY help.", "Evidence is Unclear", "Take it daily.", "dismay"}

\* Result bundles handed to check_transparency.
ResultBundles ==
    { [answer |-> a, citations |-> c,
       sources |-> [i \in 1..Len(v) |-> SourceVariants[v[i]]]] :
        a \in AuditAnswers,
        c \in {<<>>, [p \in {"111"} |-> Citation(p, metadata[1])]},
        v \in UNION {[1..n -> 1..Len(SourceVariants)] : n \in 0..MaxDocs} }

\* Answers handed to check_answer_safety: with and without the words it looks
\* for, and of 1000 and of 1001 characters.
SafetyAnswers ==
    { "", "It is ALWAYS safe.", "Evidence is unclear.",
      "Definitely not enough data, never certain.", "Take it daily.",
      Repeat("x", 1000), Repeat("x", 1001), "Never " \o Repeat("x", 995) }

\* publication_date values of the documents handed to validate_retrieval.
PublicationDates == {"2015-03-01", "2021-06-30", "n.d.", "201", ""}

\* What datetime.now().year may be.
Years == {2020, 2026}

\* Documents handed to validate_retrieval: the two keys it reads.
ValidationDocs ==
    UNION { [1..n -> [similarity_score : {30, 50},
                      publication_date : PublicationDates]] : n \in 0..MaxDocs }

\* Direct calls of the component methods.
UnitCalls ==
    {[op |-> "retrieve_documents", results |-> FormatHits(h)] : h \in UnitHits}
    \cup {[op |-> o, segs |-> g, answer |-> AnswerText(g), documents |-> d] :
            o \in {"verify_citations", "extract_citations"},
            g \in SegSeqs, d \in DocSeqs}
    \cup {[op |-> "cite_and_verify", segs |-> g, answer |-> AnswerText(g),
             documents |-> d] : g \in SegSeqs, d \in DocSeqs}
    \cup {[op |-> "check_query_safety", query |-> JoinWords(w, 1)] :
            w \in WordSeqs}
    \cup {[op |-> "generate_answer", documents |-> d, llm |-> l] :
            d \in FallbackDocSeqs, l \in LLMOutcomes}
    \cup {[op |-> "check_transparency", result |-> r] : r \in ResultBundles}
    \cup {[op |-> "check_answer_safety", answer |-> a, citations |-> c] :
            a \in SafetyAnswers,
            c \in {<<>>, [p \in {"111"} |-> Citation(p, metadata[1])]}}
    \cup {[op |-> "validate_retrieval", documents |-> d, current_year |-> y] :
            d \in ValidationDocs, y \in Years}
    \cup {[op |-> "format_context", documents |-> d] :
            d \in FallbackDocSeqs \cup {<<>>}}

-----------------------------------------------------------------------------
(* The pipeline's life: construction, then calls one at a time             *)

\* What the caller may pass as api_key, and what GEMINI_API_KEY may hold.
KeyValues == {None, PyStr(""), PyStr("key")}

Init ==
    /\ cls \in {"Medical_RAGPipeline", "MedicalRAGPipeline"}
    /\ index_loaded \in BOOLEAN
    /\ ctor_args \in [api_key : KeyValues, env : KeyValues]
    /\ api_key = None
    /\ llm_loaded = FALSE
    /\ risk_manager = None
    /\ trustworthiness_verifier = None
    /\ query_count = None
    /\ pc = "new"
    /\ question = None
    /\ risk_assessment = None
    /\ search_results = <<>>
    /\ documents = <<>>
    /\ validation = None
    /\ llm_response = None
    /\ result = None
    /\ trace = <<>>
    /\ u_call = None
    /\ u_pc = "none"
    /\ u_ret = None

\* cls(vector_db, api_key=...): the object exists when __init__ returns; when it
\* raises, the caller is left with the arguments and the exception
Construct ==
    /\ pc = "new"
    /\ LET o == Pipeline_init(ctor_args.api_key, ctor_args.env)
       IN  /\ api_key' = o.api_key
           /\ llm_loaded' = o.llm_loaded
           /\ \/ /\ o.raised
                 /\ pc' = "init_raised"
                 /\ UNCHANGED <<ctor_args, query_count, risk_manager,
                                trustworthiness_verifier>>
              \/ /\ ~o.raised
                 /\ pc' = "idle"
                 /\ ctor_args' = None
                 /\ query_count' = 0
                 /\ risk_manager' =
                      IF cls = "Medical_RAGPipeline" THEN RiskManager_init ELSE None
                 /\ trustworthiness_verifier' =
                      IF cls = "Medical_RAGPipeline"
                      THEN TrustworthinessVerifier_init ELSE None
    /\ UNCHANGED <<cls, index_loaded, frame_vars, unit_vars>>

\* query() ends: its locals and what it hands back, as the caller sees them
Finish(p, ra, found, docs, val, llm, res, calls, count) ==
    /\ pc' = p
    /\ risk_assessment' = ra
    /\ search_results' = found
    /\ documents' = docs
    /\ validation' = val
    /\ llm_response' = llm
    /\ result' = res
    /\ trace' = calls
    /\ query_count' = count

\* The body of Medical_RAGPipeline.query(question), run to its return or to the
\* exception that leaves it; Hits, LLMs and Ys are what the index, the model
\* and the clock may do during the call
Medical_query(q, Hits, LLMs, Ys) ==
    /\ question' = q
    /\ LET ra == check_query_safety(q)
       IN  \/ /\ ~ra.safe
              /\ Finish("returned", ra, <<>>, <<>>, None, None,
                        BlockedResult(q, ra),
                        <<"check_query_safety">>, query_count)
           \/ /\ ra.safe
              /\ \E hits \in Hits :
                   LET s    == search(index_loaded, hits)
                       docs == retrieve_documents(s.results)
                   IN  \/ /\ s.raised
                          /\ Finish("raised", ra, <<>>, <<>>, None, None, None,
                                    <<"check_query_safety", "search">>,
                                    query_count)
                       \/ /\ ~s.raised
                          /\ docs = <<>>
                          /\ Finish("returned", ra, s.results, docs, None, None,
                                    EmptyResult(q),
                                    <<"check_query_safety", "search">>,
                                    query_count)
                       \/ /\ ~s.raised
                          /\ docs # <<>>
                          /\ \E llm \in LLMs, y \in Ys :
                               LET val       == validate_retrieval(risk_manager,
                                                                   docs, y)
                                   answer    == Medical_generate_answer(llm)
                                   citations == Medical_extract_citations(answer, docs)
                               IN  Finish("returned", ra, s.results, docs, val, llm,
                                          AnswerResult(q, answer, citations, docs),
                                          <<"check_query_safety", "search",
                                            "validate_retrieval", "format_context",
                                            "generate_content", "extract_citations">>,
                                          query_count_incremented(query_count))

\* pipeline.query(question) called on an idle Medical_RAGPipeline
Medical_Query(q) ==
    /\ cls = "Medical_RAGPipeline"
    /\ pc = "idle"
    /\ query_count < MaxQueries
    /\ Medical_query(q, FaissHits(top_k), LLMOutcomes, Years)
    /\ UNCHANGED <<object_vars, ctor_args, unit_vars>>

\* MedicalRAGPipeline.query(question): retrieval is its first step
Utils_Query(q) ==
    /\ cls = "MedicalRAGPipeline"
    /\ pc = "idle"
    /\ query_count < MaxQueries
    /\ question' = q
    /\ \E hits \in FaissHits(top_k) :
         LET s    == search(index_loaded, hits)
             docs == retrieve_documents(s.results)
         IN  \/ /\ s.raised
                /\ Finish("raised", None, <<>>, <<>>, None, None, None, <<"search">>,
                          query_count)
             \/ /\ ~s.raised
                /\ docs = <<>>
                /\ Finish("returned", None, s.results, docs, None, None,
                          EmptyResult(q),
                          <<"search">>, query_count)
             \/ /\ ~s.raised
                /\ docs # <<>>
                /\ \E llm \in LLMOutcomes :
                     LET context   == format_context(docs)
                         answer    == Utils_generate_answer(context, llm)
                         citations == Utils_extract_citations(answer, docs)
                     IN  Finish("returned", None, s.results, docs, None, llm,
                                AnswerResult(q, answer, citations, docs),
                                <<"search", "format_context", "generate_content",
                                  "extract_citations">>,
                                query_count_incremented(query_count))
    /\ UNCHANGED <<object_vars, ctor_args, unit_vars>>

\* pipeline.get_statistics()
GetStatistics ==
    /\ pc = "idle"
    /\ pc' = "stats_returned"
    /\ result' = get_statistics(query_count)
    /\ UNCHANGED <<object_vars, ctor_args, query_count, question, risk_assessment,
                   search_results, documents, validation, llm_response, trace,
                   unit_vars>>

\* the caller takes the result (or the exception); the call's frame is gone
Return ==
    /\ pc \in {"returned", "raised", "stats_returned"}
    /\ pc' = "idle"
    /\ question' = None
    /\ risk_assessment' = None
    /\ search_results' = <<>>
    /\ documents' = <<>>
    /\ validation' = None
    /\ llm_response' = None
    /\ result' = None
    /\ trace' = <<>>
    /\ UNCHANGED <<object_vars, ctor_args, query_count, unit_vars>>

Next ==
    \/ Construct
    \/ \E q \in Questions : Medical_Query(q)
    \/ \E q \in Questions : Utils_Query(q)
    \/ GetStatistics
    \/ Return

Spec == Init /\ [][Next]_vars

-----------------------------------------------------------------------------
(* Direct calls of the component methods on bounded inputs                 *)

InitUnit ==
    /\ cls = "Medical_RAGPipeline"
    /\ index_loaded = TRUE
    /\ ctor_args = None
    /\ api_key = PyStr("key")
    /\ llm_loaded = TRUE
    /\ risk_manager = RiskManager_init
    /\ trustworthiness_verifier = TrustworthinessVerifier_init
    /\ query_count = 0
    /\ pc = "idle"
    /\ question = None
    /\ risk_assessment = None
    /\ search_results = <<>>
    /\ documents = <<>>
    /\ validation = None
    /\ llm_response = None
    /\ result = None
    /\ trace = <<>>
    /\ u_call \in UnitCalls
    /\ u_pc = "called"
    /\ u_ret = None

CallRetrieveDocuments ==
    /\ u_pc = "called"
    /\ u_call.op = "retrieve_documents"
    /\ u_ret' = retrieve_documents(u_call.results)
    /\ u_pc' = "returned"
    /\ UNCHANGED <<pipeline_vars, risk_manager, trustworthiness_verifier, u_call>>

\* trustworthiness_verifier.verify_citations(answer, documents), a first time
\* and then once more with the same arguments
CallVerifyCitations ==
    /\ u_pc \in {"called", "returned"}
    /\ u_call.op = "verify_citations"
    /\ LET o == verify_citations_call(trustworthiness_verifier, u_call.answer,
                                      u_call.documents)
       IN  /\ u_ret' = o.ret
           /\ trustworthiness_verifier' = o.self
           /\ u_call' = [u_call EXCEPT !.documents = o.documents]
    /\ u_pc' = IF u_pc = "called" THEN "returned" ELSE "repeated"
    /\ UNCHANGED <<pipeline_vars, risk_manager>>

CallExtractCitations ==
    /\ u_pc = "called"
    /\ u_call.op = "extract_citations"
    /\ u_ret' = Medical_extract_citations(u_call.answer, u_call.documents)
    /\ u_pc' = "returned"
    /\ UNCHANGED <<pipeline_vars, risk_manager, trustworthiness_verifier, u_call>>

\* risk_manager.check_query_safety(query), a first time and then once more
\* with the same query
CallCheckQuerySafety ==
    /\ u_pc \in {"called", "returned"}
    /\ u_call.op = "check_query_safety"
    /\ LET o == check_query_safety_call(risk_manager, u_call.query)
       IN  /\ u_ret' = o.ret
           /\ risk_manager' = o.self
    /\ u_pc' = IF u_pc = "called" THEN "returned" ELSE "repeated"
    /\ UNCHANGED <<pipeline_vars, trustworthiness_verifier, u_call>>

\* MedicalRAGPipeline.generate_answer(query, context) on the context
\* format_context made of the documents
CallGenerateAnswer ==
    /\ u_pc = "called"
    /\ u_call.op = "generate_answer"
    /\ u_ret' = Utils_generate_answer(format_context(u_call.documents), u_call.llm)
    /\ u_pc' = "returned"
    /\ UNCHANGED <<pipeline_vars, risk_manager, trustworthiness_verifier, u_call>>

CallCheckTransparency ==
    /\ u_pc = "called"
    /\ u_call.op = "check_transparency"
    /\ u_ret' = check_transparency(u_call.result)
    /\ u_pc' = "returned"
    /\ UNCHANGED <<pipeline_vars, risk_manager, trustworthiness_verifier, u_call>>

CallCheckAnswerSafety ==
    /\ u_pc = "called"
    /\ u_call.op = "check_answer_safety"
    /\ u_ret' = check_answer_safety(risk_manager, u_call.answer, u_call.citations)
    /\ u_pc' = "returned"
    /\ UNCHANGED <<pipeline_vars, risk_manager, trustworthiness_verifier, u_call>>

CallValidateRetrieval ==
    /\ u_pc = "called"
    /\ u_call.op = "validate_retrieval"
    /\ u_ret' = validate_retrieval(risk_manager, u_call.documents,
                                   u_call.current_year)
    /\ u_pc' = "returned"
    /\ UNCHANGED <<pipeline_vars, risk_manager, trustworthiness_verifier, u_call>>

CallFormatContext ==
    /\ u_pc = "called"
    /\ u_call.op = "format_context"
    /\ u_ret' = format_context(u_call.documents)
    /\ u_pc' = "returned"
    /\ UNCHANGED <<pipeline_vars, risk_manager, trustworthiness_verifier, u_call>>

\* extract_citations, then verify_citations, on the same answer and documents
CallCiteAndVerify ==
    /\ u_pc = "called"
    /\ u_call.op = "cite_and_verify"
    /\ u_ret' = [citations |-> Medical_extract_citations(u_call.answer,
                                                         u_call.documents),
                 verification |-> verify_citations(u_call.answer,
                                                   u_call.documents)]
    /\ u_pc' = "returned"
    /\ UNCHANGED <<pipeline_vars, risk_manager, trustworthiness_verifier, u_call>>

NextUnit ==
    \/ CallRetrieveDocuments
    \/ CallVerifyCitations
    \/ CallExtractCitations
    \/ CallCheckQuerySafety
    \/ CallGenerateAnswer
    \/ CallCheckTransparency
    \/ CallCheckAnswerSafety
    \/ CallValidateRetrieval
    \/ CallFormatContext
    \/ CallCiteAndVerify

SpecUnit == InitUnit /\ [][NextUnit]_vars

-----------------------------------------------------------------------------
(* batch_query (MED_RAG/ragpipeline.py): one call, step by step             *)

\* the longest list of questions handed to batch_query
MaxBatch == 2

BatchQuestions ==
    { "I think I am dying, severe pain",
      "What causes heart disease?",
      "Do I have diabetes?" }

BatchCalls ==
    {[op |-> "batch_query", questions |-> qs] :
        qs \in UNION {[1..n -> BatchQuestions] : n \in 0..MaxBatch}}

\* what the index and the model do while a batch runs: no hit, one good hit,
\* one hit under the threshold; an exception or a citing text
BatchHits == {<<>>, <<<<1, 90>>>>, <<<<2, 30>>>>}

BatchLLM ==
    {[raised |-> TRUE, msg |-> "quota exceeded"],
     [raised |-> FALSE, text |-> "Metformin lowers glucose [PMID: 111]. [PMID: 999]"]}

\* results.append dropping the results that carry no sources
batch_append_dropping(results, result_) ==
    IF result_.sources = <<>> THEN results ELSE Append(results, result_)

\* results.append(result)
batch_append(results, result_) == Append(results, result_)

\* batch_query was called on a constructed pipeline: results = [], the loop
\* has taken i = 0 questions; while the loop runs u_ret holds these two locals
InitBatch ==
    /\ cls = "Medical_RAGPipeline"
    /\ index_loaded \in BOOLEAN
    /\ ctor_args = None
    /\ api_key = Pipeline_init(PyStr("key"), None).api_key
    /\ llm_loaded = Pipeline_init(PyStr("key"), None).llm_loaded
    /\ risk_manager = RiskManager_init
    /\ trustworthiness_verifier = TrustworthinessVerifier_init
    /\ query_count = 0
    /\ pc = "idle"
    /\ question = None
    /\ risk_assessment = None
    /\ search_results = <<>>
    /\ documents = <<>>
    /\ validation = None
    /\ llm_response = None
    /\ result = None
    /\ trace = <<>>
    /\ u_call \in BatchCalls
    /\ u_pc = "loop"
    /\ u_ret = [i |-> 0, results |-> <<>>]

\* the loop takes the next question and calls self.query on it
BatchQuery ==
    /\ u_pc = "loop"
    /\ pc = "idle"
    /\ u_ret.i < Len(u_call.questions)
    /\ Medical_query(u_call.questions[u_ret.i + 1], BatchHits, BatchLLM, Years)
    /\ u_ret' = [u_ret EXCEPT !.i = @ + 1]
    /\ UNCHANGED <<object_vars, ctor_args, u_call, u_pc>>

\* self.query returned: its result is appended
BatchAppend ==
    /\ u_pc = "loop"
    /\ pc = "returned"
    /\ u_ret' = [u_ret EXCEPT !.results = batch_append(@, result)]
    /\ Finish("idle", None, <<>>, <<>>, None, None, None, <<>>, query_count)
    /\ question' = None
    /\ UNCHANGED <<object_vars, ctor_args, u_call, u_pc>>

\* self.query raised: nothing catches the exception, batch_query is left
\* without a list
BatchRaise ==
    /\ u_pc = "loop"
    /\ pc = "raised"
    /\ u_pc' = "raised"
    /\ u_ret' = None
    /\ Finish("idle", None, <<>>, <<>>, None, None, None, <<>>, query_count)
    /\ question' = None
    /\ UNCHANGED <<object_vars, ctor_args, u_call>>

\* the questions are exhausted: return results
BatchReturn ==
    /\ u_pc = "loop"
    /\ pc = "idle"
    /\ u_ret.i = Len(u_call.questions)
    /\ u_pc' = "returned"
    /\ u_ret' = u_ret.results
    /\ UNCHANGED <<pipeline_vars, risk_manager, trustworthiness_verifier, u_call>>

NextBatch ==
    \/ BatchQuery
    \/ BatchAppend
    \/ BatchRaise
    \/ BatchReturn

SpecBatch == InitBatch /\ [][NextBatch]_vars

-----------------------------------------------------------------------------
(* Properties                                                              *)

\* kw occurs in q when letter case is ignored (kw is lower-case)
UpperOf(c) ==
    IF \E i \in 1..Len(LowerCase) : Char(LowerCase, i) = c
    THEN Char(UpperCase, CHOOSE i \in 1..Len(LowerCase) : Char(LowerCase, i) = c)
    ELSE c

OccursIgnoringCase(kw, q) ==
    \E a \in 1..(Len(q) - Len(kw) + 1) :
        \A j \in 1..Len(kw) :
            Char(q, a + j - 1) \in {Char(kw, j), UpperOf(Char(kw, j))}

MentionsEmergency(q) ==
    \E kw \in {"emergency", "urgent", "dying", "overdose", "suicide", "severe pain"} :
        OccursIgnoringCase(kw, q)

\* C1: a query of Medical_RAGPipeline whose text contains an emergency keyword,
\* in any letter case, is assessed safe=false and risk_level=critical, and
\* query() returns without calling vector_db.search or the generation oracle.
C1_EmergencyBlocked ==
    (/\ cls = "Medical_RAGPipeline"
     /\ pc \in {"returned", "raised"}
     /\ MentionsEmergency(question))
    => /\ pc = "returned"
       /\ risk_assessment.safe = FALSE
       /\ risk_assessment.risk_level = "critical"
       /\ "search" \notin Range(trace)
       /\ "generate_content" \notin Range(trace)

\* C1 witness: an emergency query typed in upper case was blocked although the
\* index was loaded.
C1_Witness ==
    /\ cls = "Medical_RAGPipeline"
    /\ pc = "returned"
    /\ index_loaded
    /\ question = "URGENT: do I have flu?"
    /\ trace = <<"check_query_safety">>

QueryResultFields ==
    {"question", "answer", "citations", "sources", "risk_level",
     "citation_accuracy", "transparency_score", "safe"}

\* C2: every result query() returns carries all the fields of a QueryResult.
C2_ResultComplete ==
    pc = "returned" => QueryResultFields \subseteq DOMAIN result

\* the calls that make up FORMATTING, GENERATING, VERIFYING and AUDITING
StageCalls ==
    {"format_context", "generate_content", "verify_citations",
     "check_transparency", "check_answer_safety"}

\* C3: a query whose filtered retrieval is non-empty goes, once each and in this
\* order, through formatting, generation, citation verification and the two
\* audits before query() returns.
C3_AllStagesInOrder ==
    (pc = "returned" /\ documents # <<>>)
    => SelectSeq(trace, LAMBDA c : c \in StageCalls)
         = <<"format_context", "generate_content", "verify_citations",
             "check_transparency", "check_answer_safety">>

\* C4: in both orchestrators the retrieval oracle is called only after the
\* Risk Screener has assessed the query.
C4_ScreeningFirst ==
    \A j \in 1..Len(trace) :
        trace[j] = "search"
        => \E i \in 1..(j - 1) : trace[i] = "check_query_safety"

\* C5: query() always returns a result; no exception leaves it.
C5_NoFaultEscapes == pc # "raised"

\* C6: when no document the oracle returned reaches the similarity threshold,
\* query() returns the fixed answer with no citations, no sources and
\* num_sources 0, and the generation oracle is not called.
C6_EmptyRetrieval ==
    (/\ pc = "returned"
     /\ "search" \in Range(trace)
     /\ \A i \in 1..Len(search_results) : search_results[i].similarity_score < 50)
    => /\ result.answer = "No relevant medical literature found."
       /\ DOMAIN result.citations = {}
       /\ Len(result.sources) = 0
       /\ result.num_sources = 0
       /\ "generate_content" \notin Range(trace)

\* C6 witness: the oracle returned documents, all below the threshold.
C6_Witness ==
    /\ pc = "returned"
    /\ Len(search_results) = 2
    /\ \A i \in 1..Len(search_results) : search_results[i].similarity_score = 30
    /\ result.num_sources = 0

\* the k-th least element of a set of integers
KthOf(S, k) == CHOOSE i \in S : Cardinality({j \in S : j <= i}) = k

\* C7: retrieve_documents returns the oracle's results whose score is at least
\* the threshold, in the oracle's order; scores 0.9, 0.6, 0.3 keep the first two.
C7_FilterSubsequence ==
    (u_pc = "returned" /\ u_call.op = "retrieve_documents")
    => LET r    == u_call.results
           kept == {i \in 1..Len(r) : r[i].similarity_score >= similarity_threshold}
       IN  /\ Len(u_ret) = Cardinality(kept)
           /\ \A k \in 1..Len(u_ret) : u_ret[k] = r[KthOf(kept, k)]
           /\ [i \in 1..Len(r) |-> r[i].similarity_score] = <<90, 60, 30>>
              => u_ret = <<r[1], r[2]>>

\* C7 witness: an unsorted result list with one score below, one equal to and
\* one above the threshold was filtered to the last two.
C7_Witness ==
    /\ u_pc = "returned"
    /\ u_call.op = "retrieve_documents"
    /\ [i \in 1..Len(u_call.results) |-> u_call.results[i].similarity_score]
         = <<30, 50, 90>>
    /\ [i \in 1..Len(u_ret) |-> u_ret[i].similarity_score] = <<50, 90>>

\* C8: every PMID key of a returned result's citations is the pmid of a document
\* of the same result's sources.
C8_CitationsFromSources ==
    pc = "returned"
    => \A k \in DOMAIN result.citations :
          \E i \in 1..Len(result.sources) : str(result.sources[i].pmid) = k

\* C8 witness: the answer cited 111 and 999, only 111 was retrieved, and the
\* returned citations hold 111 alone.
C8_Witness ==
    /\ pc = "returned"
    /\ "extract_citations" \in Range(trace)
    /\ result.answer = "Metformin lowers glucose [PMID: 111]. [PMID: 999]"
    /\ DOMAIN result.citations = {"111"}

\* C9: a cited PMID that matches no document is left out of extract_citations'
\* mapping and is reported by verify_citations: invalid_citations is the cited
\* PMIDs minus the source PMIDs, uncited_sources the source PMIDs minus the
\* cited ones, and citation_accuracy is valid / total * 100 (1 of 2 gives 50).
C9_UnmatchedDroppedAndReported ==
    (u_pc = "returned" /\ u_call.op \in {"extract_citations", "verify_citations"})
    => LET docs   == u_call.documents
           cited  == {PyStr(p) : p \in AnswerCites(u_call.segs)}
           source == {docs[i].pmid : i \in 1..Len(docs)}
           good   == {c \in cited : c \in source}
       IN  /\ u_call.op = "extract_citations"
              => \A c \in cited : c \notin source => c.v \notin DOMAIN u_ret
           /\ u_call.op = "verify_citations"
              => /\ u_ret.invalid_citations = {c \in cited : c \notin source}
                 /\ u_ret.uncited_sources = {x \in source : x \notin cited}
                 /\ u_ret.total_citations = Cardinality(cited)
                 /\ u_ret.valid_citations = Cardinality(good)
                 /\ cited # {}
                    => u_ret.citation_accuracy.num * Cardinality(cited)
                         = 100 * Cardinality(good) * u_ret.citation_accuracy.den
                 /\ (Cardinality(good) = 1 /\ Cardinality(cited) = 2)
                    => u_ret.citation_accuracy.num
                         = 50 * u_ret.citation_accuracy.den

\* C9 witness: 111 and 999 cited, only 111 among the documents.
C9_Witness ==
    /\ u_pc = "returned"
    /\ u_call.op = "verify_citations"
    /\ AnswerCites(u_call.segs) = {"111", "999"}
    /\ u_ret.invalid_citations = {PyStr("999")}
    /\ u_ret.valid_citations = 1
    /\ u_ret.uncited_sources # {}

\* C10: verify_citations' citation_accuracy lies in [0, 100], and is 0 when the
\* answer holds no PMID marker, whatever the documents.
C10_AccuracyRange ==
    (u_pc = "returned" /\ u_call.op = "verify_citations")
    => /\ u_ret.citation_accuracy.den > 0
       /\ 0 <= u_ret.citation_accuracy.num
       /\ u_ret.citation_accuracy.num <= 100 * u_ret.citation_accuracy.den
       /\ AnswerCites(u_call.segs) = {} => u_ret.citation_accuracy.num = 0

\* C10 witness: an answer without a PMID: marker checked against two documents.
C10_Witness ==
    /\ u_pc = "returned"
    /\ u_call.op = "verify_citations"
    /\ u_call.segs = <<1, 5>>
    /\ Len(u_call.documents) = 2
    /\ u_ret.citation_accuracy = Zero

\* C11: when llm.generate_content raises during Medical_RAGPipeline.query,
\* generate_answer returns "Error generating answer: <message>" and query()
\* goes on through citation extraction and returns a result whose answer is
\* that string.
C11_ErrorAnswerReturned ==
    (/\ cls = "Medical_RAGPipeline"
     /\ pc \in {"returned", "raised"}
     /\ llm_response # None
     /\ llm_response.raised)
    => /\ pc = "returned"
       /\ result.answer = "Error generating answer: " \o llm_response.msg
       /\ \E i \in 1..Len(trace) :
            /\ trace[i] = "generate_content"
            /\ \E j \in (i + 1)..Len(trace) : trace[j] = "extract_citations"

\* C11 witness: the oracle raised "quota exceeded" and the query returned the
\* error string as its answer, with the sources and no citation.
C11_Witness ==
    /\ cls = "Medical_RAGPipeline"
    /\ pc = "returned"
    /\ llm_response # None
    /\ llm_response.raised
    /\ result.answer = "Error generating answer: quota exceeded"
    /\ result.num_sources = 2
    /\ DOMAIN result.citations = {}

\* C12: total_queries is the number of queries completed since construction:
\* it is 0 after construction, every query() call that returns a result, the
\* blocked and the empty ones included, adds exactly one to the counter, and
\* get_statistics() reports the counter.
C12_TotalQueriesCountsCompleted ==
    [][/\ (pc = "new" /\ pc' = "idle") => query_count' = 0
       /\ (pc = "idle" /\ pc' = "returned") => query_count' = query_count + 1
       /\ pc' = "stats_returned" => result'.total_queries = query_count']_vars

\* C13: the result of a blocked query has risk_level critical, safe false, no
\* sources, no citations, and for answer the one emergency warning the Risk
\* Screener produced.
C13_BlockedResultShape ==
    (/\ cls = "Medical_RAGPipeline"
     /\ pc = "returned"
     /\ ~risk_assessment.safe)
    => /\ {"risk_level", "safe", "sources", "citations", "answer"}
            \subseteq DOMAIN result
       /\ result.risk_level = "critical"
       /\ result.safe = FALSE
       /\ Len(result.sources) = 0
       /\ DOMAIN result.citations = {}
       /\ risk_assessment.warnings = <<result.answer>>
       /\ result.answer = "EMERGENCY: This system is not for emergencies. "
                          \o "Call 911 or emergency services."

\* C13 witness: "suicide" was blocked and answered with the emergency warning.
C13_Witness ==
    /\ cls = "Medical_RAGPipeline"
    /\ pc = "returned"
    /\ question = "suicide"
    /\ ~risk_assessment.safe
    /\ Len(result.answer) > 0
    /\ Len(result.sources) = 0

\* C14: Medical_RAGPipeline.query() ends before retrieval exactly when the
\* query holds an emergency keyword; a query assessed low, medium or high is
\* safe and goes on to vector_db.search (the dosage question is medium, safe,
\* and retrieved for).
C14_OnlyEmergencyExitsEarly ==
    (cls = "Medical_RAGPipeline" /\ pc \in {"returned", "raised"})
    => /\ "search" \notin Range(trace) <=> MentionsEmergency(question)
       /\ risk_assessment.risk_level \in {"low", "medium", "high"}
          => risk_assessment.safe /\ "search" \in Range(trace)
       /\ question = "What is the dosage for metformin?"
          => /\ risk_assessment.risk_level = "medium"
             /\ risk_assessment.safe
             /\ "search" \in Range(trace)

\* C14 witness: a diagnostic question, assessed high, was retrieved for and
\* answered.
C14_Witness ==
    /\ cls = "Medical_RAGPipeline"
    /\ pc = "returned"
    /\ question = "Do I have diabetes?"
    /\ risk_assessment.risk_level = "high"
    /\ risk_assessment.safe
    /\ "generate_content" \in Range(trace)

C16_NoPipelineWithoutKey ==
    /\ [][(pc = "new" /\ ~Truthy(ctor_args.api_key) /\ ~Truthy(ctor_args.env))
          => (pc' = "init_raised" /\ ~llm_loaded')]_vars
    /\ [](pc \in {"idle", "returned", "raised", "stats_returned"}
          => Truthy(api_key))
    /\ [](llm_loaded => Truthy(api_key))

\* C16 witness: MedicalRAGPipeline(vector_db, api_key='') with GEMINI_API_KEY
\* unset raised, and no model was loaded.
C16_Witness ==
    /\ cls = "MedicalRAGPipeline"
    /\ pc = "init_raised"
    /\ ctor_args.api_key = PyStr("")
    /\ ctor_args.env = None
    /\ ~llm_loaded

MentionsDiagnosis(q) ==
    \E kw \in {"do i have", "am i", "diagnose me", "what is wrong with me"} :
        OccursIgnoringCase(kw, q)

MentionsTreatment(q) ==
    \E kw \in {"should i take", "how much", "dosage", "can i stop"} :
        OccursIgnoringCase(kw, q)

\* C17: for a query without emergency keyword, check_query_safety lists the
\* diagnostic warning before the treatment warning, and the risk level is
\* medium whenever a treatment keyword occurs (a diagnostic keyword or not),
\* high when only a diagnostic keyword occurs, low when neither does.
C17_LastTierWins ==
    (/\ u_pc = "returned"
     /\ u_call.op = "check_query_safety"
     /\ ~MentionsEmergency(u_call.query))
    => LET diag == MentionsDiagnosis(u_call.query)
           trt  == MentionsTreatment(u_call.query)
       IN  /\ u_ret.safe
           /\ u_ret.warnings
                = (IF diag
                   THEN <<"WARNING: This system provides information only, "
                          \o "not diagnosis.">>
                   ELSE <<>>)
                  \o (IF trt
                      THEN <<"CAUTION: Consult healthcare provider for "
                             \o "treatment decisions.">>
                      ELSE <<>>)
           /\ u_ret.risk_level
                = IF trt THEN "medium" ELSE IF diag THEN "high" ELSE "low"

\* C17 witness: "Am i Dosage" matches both tiers: two warnings, the diagnostic
\* one first, and risk level medium.
C17_Witness ==
    /\ u_pc = "returned"
    /\ u_call.op = "check_query_safety"
    /\ u_call.query = "Am i Dosage"
    /\ Len(u_ret.warnings) = 2
    /\ u_ret.warnings[1] = DiagnosticWarning
    /\ u_ret.risk_level = "medium"

\* C18: a query() call changes nothing of the pipeline but query_count: the
\* configuration, the risk manager and the verifier are as before; query_count
\* never decreases, grows by exactly 1 when the call returns a generated
\* answer, and is unchanged by a blocked query, an empty retrieval and a call
\* that raises.
C18_OnlyCounterChanges ==
    /\ [][(pc = "idle" /\ pc' \in {"returned", "raised"})
          => /\ object_vars' = object_vars
             /\ IF pc' = "returned" /\ "generate_content" \in Range(trace')
                THEN query_count' = query_count + 1
                ELSE query_count' = query_count]_vars
    /\ [][pc # "new" => query_count' >= query_count]_vars

\* C18 witness: after one answered query, a blocked query returned and the
\* counter still reads 1.
C18_Witness ==
    /\ cls = "Medical_RAGPipeline"
    /\ pc = "returned"
    /\ ~risk_assessment.safe
    /\ query_count = 1
    /\ risk_manager = RiskManager_init

\* C19: when the oracle raises or gives no text, MedicalRAGPipeline's
\* generate_answer returns an extractive summary in which every marker
\* PMID: <digits> names the PMID of a document of the context, and each of the
\* first three documents' PMIDs follows the opening sentences of that same
\* document's abstract; so extract_citations on the summary meets no PMID that
\* is absent from the documents.
C19_FallbackCitesContext ==
    (/\ u_pc = "returned"
     /\ u_call.op = "generate_answer"
     /\ (u_call.llm.raised \/ u_call.llm.text = ""))
    => LET docs   == u_call.documents
           marked == FindAllPMID(u_ret, 1)
       IN  /\ \A k \in 1..Len(marked) :
                \E i \in 1..Len(docs) : str(docs[i].pmid) = marked[k]
           /\ \A i \in 1..Min(3, Len(docs)) :
                StrIn(FirstTwoSentences(strip(docs[i].abstract)) \o ". [PMID: "
                      \o str(docs[i].pmid) \o "]", u_ret)
           /\ DOMAIN Utils_extract_citations(u_ret, docs) = ToSet(marked)

\* C20 as claimed: citation extraction finds "PMID", optional whitespace and/or
\* a colon, and digits, so that "PMID: 111" and "PMID 111" are both extracted;
\* the PMIDs found are a set: one entry in the citation mapping and one count
\* in total_citations for each, however often it is cited.
C20_ColonOptional ==
    (u_pc = "returned" /\ u_call.op \in {"extract_citations", "verify_citations"})
    => LET docs  == u_call.documents
           named == AnswerCites(u_call.segs) \cup AnswerLoose(u_call.segs)
       IN  /\ u_call.op = "extract_citations"
              => DOMAIN u_ret
                   = {p \in named : \E i \in 1..Len(docs) : docs[i].pmid = PyStr(p)}
           /\ u_call.op = "verify_citations"
              => u_ret.total_citations = Cardinality(named)

\* C20 amended: citation extraction finds "PMID:", optional whitespace, and
\* digits: "PMID: 111" and "PMID:111" are extracted, "PMID 111" without the
\* colon is not; the PMIDs found are a set: one entry in the citation mapping
\* (for a document whose pmid is that str) and one count in total_citations
\* for each, however often it is cited.
C20_ColonRequired ==
    (u_pc = "returned" /\ u_call.op \in {"extract_citations", "verify_citations"})
    => LET docs  == u_call.documents
           cited == AnswerCites(u_call.segs)
       IN  /\ u_call.op = "extract_citations"
              => DOMAIN u_ret
                   = {p \in cited : \E i \in 1..Len(docs) : docs[i].pmid = PyStr(p)}
           /\ u_call.op = "verify_citations"
              => u_ret.total_citations = Cardinality(cited)

\* C20 witness: the answer "PMID 333 (PMID:  222, PMID: 111) " checked against
\* documents 333 and 111: two citations are counted, 333 is not among them.
C20_Witness ==
    /\ u_pc = "returned"
    /\ u_call.op = "verify_citations"
    /\ u_call.segs = <<5, 4>>
    /\ {u_call.documents[i].pmid : i \in 1..Len(u_call.documents)}
         = {PyStr("333"), PyStr("111")}
    /\ u_ret.total_citations = 2

Hedges(answer) ==
    \E w \in {"may", "suggest", "indicate", "possible", "unclear"} :
        OccursIgnoringCase(w, answer)

\* the number of the conditions of a sequence of booleans that hold
Points(conds) == Cardinality({i \in 1..Len(conds) : conds[i]})

\* the issues check_transparency names, in its order, for the missed points
NamedIssues(conds) ==
    LET names == <<"Missing citations", "Missing source documents",
                   "Missing similarity scores", "Missing metadata",
                   "No uncertainty indicators">>
        missed == {i \in 1..5 : ~conds[i]}
    IN  [k \in 1..Cardinality(missed) |-> names[KthOf(missed, k)]]

\* what a check_transparency call must have returned when its five points are
\* awarded on conds
TransparencyAsRubric(conds) ==
    /\ u_ret.ret.transparency_score = Points(conds)
    /\ u_ret.ret.percentage.num = 20 * Points(conds) * u_ret.ret.percentage.den
    /\ u_ret.ret.issues = NamedIssues(conds)
    /\ Len(u_ret.ret.issues) = 5 - u_ret.ret.transparency_score
    /\ u_ret.result = u_call.result

\* C21 as claimed: check_transparency awards one point each for (a) citations
\* non-empty, (b) sources non-empty, (c) every source carries a similarity
\* score, (d) every source carries journal and publication_date, (e) the answer
\* holds a hedging word; percentage is score/5*100, one issue is named per
\* missed point, and the result bundle is not changed.
C21_OnePointPerItem ==
    (u_pc = "returned" /\ u_call.op = "check_transparency")
    => LET r == u_call.result
           s == r.sources
       IN  TransparencyAsRubric(
             << DOMAIN r.citations # {},
                Len(s) > 0,
                \A i \in 1..Len(s) : "similarity_score" \in DOMAIN s[i],
                \A i \in 1..Len(s) :
                    {"journal", "publication_date"} \subseteq DOMAIN s[i],
                Hedges(r.answer) >>)

\* C21 amended: as claimed, except that points (c) and (d) are awarded only
\* when there is at least one source: a bundle without sources misses (b), (c)
\* and (d).
C21_SourcePointsNeedSources ==
    (u_pc = "returned" /\ u_call.op = "check_transparency")
    => LET r == u_call.result
           s == r.sources
       IN  TransparencyAsRubric(
             << DOMAIN r.citations # {},
                Len(s) > 0,
                /\ Len(s) > 0
                /\ \A i \in 1..Len(s) : "similarity_score" \in DOMAIN s[i],
                /\ Len(s) > 0
                /\ \A i \in 1..Len(s) :
                     {"journal", "publication_date"} \subseteq DOMAIN s[i],
                Hedges(r.answer) >>)

\* C21 witness: a bundle with a citation, a hedged answer and no sources scored
\* 2 of 5 and was told of the three points about sources.
C21_Witness ==
    /\ u_pc = "returned"
    /\ u_call.op = "check_transparency"
    /\ Len(u_call.result.sources) = 0
    /\ u_call.result.answer = "It MAY help."
    /\ u_ret.ret.transparency_score = 2
    /\ u_ret.ret.issues = <<"Missing source documents", "Missing similarity scores",
                            "Missing metadata">>

\* C22: check_answer_safety returns safe=false exactly when the citations
\* mapping is empty; the flags are, in this order and each at most once: no
\* citations, absolute statements, uncertainty, longer than 1000 characters;
\* none of the last three changes safe.
C22_SafeIffCited ==
    (u_pc = "returned" /\ u_call.op = "check_answer_safety")
    => LET a == u_call.answer
           nocite == DOMAIN u_call.citations = {}
           absolute ==
               \E w \in {"always", "never", "definitely", "certainly", "guaranteed"} :
                   OccursIgnoringCase(w, a)
           unsure ==
               \E w \in {"insufficient information", "not enough",
                         "cannot determine", "unclear"} : OccursIgnoringCase(w, a)
       IN  /\ u_ret.safe = ~nocite
           /\ u_ret.flags
                = (IF nocite THEN <<"RISK: Answer has no citations">> ELSE <<>>)
                  \o (IF absolute
                      THEN <<"WARNING: Answer contains absolute statements">>
                      ELSE <<>>)
                  \o (IF unsure
                      THEN <<"INFO: Answer indicates uncertainty (GOOD)">>
                      ELSE <<>>)
                  \o (IF Len(a) > 1000
                      THEN <<"WARNING: Answer unusually long, verify accuracy">>
                      ELSE <<>>)

\* C22 witness: a cited answer of 1001 characters that says "Never" is safe and
\* carries the absolute-statement flag and the length flag, in that order.
C22_Witness ==
    /\ u_pc = "returned"
    /\ u_call.op = "check_answer_safety"
    /\ Len(u_call.answer) = 1001
    /\ DOMAIN u_call.citations # {}
    /\ u_ret.safe
    /\ Len(u_ret.flags) = 2
    /\ u_ret.flags[2] = "WARNING: Answer unusually long, verify accuracy"

\* the issues of a sequence that begin with prefix
IssuesOf(issues, prefix) ==
    SelectSeq(issues, LAMBDA s : StartsAt(s, 1, prefix))

\* C23: validate_retrieval returns valid=false exactly when there are fewer
\* documents than min_documents_required (1); the low-confidence issue counts
\* the documents with similarity_score < 0.5 and the staleness issue may
\* follow, neither changing valid; the issues come in the order insufficient
\* sources, low confidence, older than 5 years.
C23_ValidIffEnoughDocuments ==
    (u_pc = "returned" /\ u_call.op = "validate_retrieval")
    => LET docs == u_call.documents
           low  == {i \in 1..Len(docs) : docs[i].similarity_score < 50}
           ins  == IssuesOf(u_ret.issues, "Insufficient sources: ")
           warn == IssuesOf(u_ret.issues, "WARNING: ")
           info == IssuesOf(u_ret.issues, "INFO: ")
       IN  /\ u_ret.valid = (Len(docs) >= 1)
           /\ u_ret.issues = ins \o warn \o info
           /\ ins = IF Len(docs) < 1
                    THEN <<"Insufficient sources: 0 found, need 1">> ELSE <<>>
           /\ warn = IF low # {}
                     THEN <<"WARNING: " \o IntToStr(Cardinality(low))
                            \o " low-confidence sources">>
                     ELSE <<>>
           /\ Len(info) <= 1
           /\ \A i \in 1..Len(info) :
                StartsAt(info[i], Len(info[i]) - 26, " sources older than 5 years")

\* C23 witness: two documents, both below 0.5 and one of 2015, are valid and
\* reported with the low-confidence issue before the staleness issue.
C23_Witness ==
    /\ u_pc = "returned"
    /\ u_call.op = "validate_retrieval"
    /\ u_call.current_year = 2026
    /\ Len(u_call.documents) = 2
    /\ u_ret.valid
    /\ u_ret.issues = <<"WARNING: 2 low-confidence sources",
                        "INFO: 1 sources older than 5 years">>

\* the date begins with four decimal digits
HasLeadingYear(date) ==
    Len(date) >= 4 /\ \A i \in 1..4 : Char(date, i) \in Digits

\* C24: in validate_retrieval a document whose publication_date does not begin
\* with a 4-digit year is not counted among the sources older than 5 years,
\* and the call returns all the same: the staleness issue counts exactly the
\* documents whose 4-digit leading year is more than 5 years before the
\* current year.
C24_UnparsedDatesSkipped ==
    (u_pc = "returned" /\ u_call.op = "validate_retrieval")
    => LET docs == u_call.documents
           old  == {i \in 1..Len(docs) :
                      /\ HasLeadingYear(docs[i].publication_date)
                      /\ u_call.current_year
                           - DigitsValue(SubSeq(docs[i].publication_date, 1, 4)) > 5}
       IN  IssuesOf(u_ret.issues, "INFO: ")
             = IF old # {}
               THEN <<"INFO: " \o IntToStr(Cardinality(old))
                      \o " sources older than 5 years">>
               ELSE <<>>

\* C25: retrieval validation is advisory: whatever validate_retrieval returned,
\* issues or none, query() goes on to format_context and generate_content with
\* the documents it validated, and the sources it returns are exactly the
\* filtered documents.
C25_ValidationAdvisory ==
    (/\ cls = "Medical_RAGPipeline"
     /\ pc \in {"returned", "raised"}
     /\ "validate_retrieval" \in Range(trace))
    => /\ pc = "returned"
       /\ \E i \in 1..Len(trace) :
            /\ trace[i] = "validate_retrieval"
            /\ i + 2 <= Len(trace)
            /\ trace[i + 1] = "format_context"
            /\ trace[i + 2] = "generate_content"
       /\ result.sources = documents
       /\ documents = SelectSeq(search_results,
                                LAMBDA r : r.similarity_score >= 50)
       /\ result.num_sources = Len(documents)

\* C25 witness: validate_retrieval reported a source older than 5 years, and
\* the query was answered from both retrieved documents.
C25_Witness ==
    /\ cls = "Medical_RAGPipeline"
    /\ pc = "returned"
    /\ "validate_retrieval" \in Range(trace)
    /\ validation.issues = <<"INFO: 1 sources older than 5 years">>
    /\ Len(result.sources) = 2
    /\ "generate_content" \in Range(trace)

LabelledBlock(i, d) ==
    "\n[Document " \o IntToStr(i) \o "]"
    \o "\nPMID: " \o d.pmid.v
    \o "\nTitle: " \o d.title
    \o "\nJournal: " \o d.journal
    \o "\nSpecialty: " \o d.specialty
    \o "\n\nAbstract:\n" \o d.abstract
    \o "\n\n---"

RECURSIVE BlockStart(_, _)
\* where the i-th block begins when the blocks follow one another, one line
\* feed between two of them
BlockStart(docs, i) ==
    IF i = 1 THEN 1
    ELSE BlockStart(docs, i - 1) + Len(LabelledBlock(i - 1, docs[i - 1])) + 1

\* C27: format_context returns the sentinel "No relevant medical literature
\* found." exactly when there is no document; otherwise one labelled block per
\* document (PMID, title, journal, specialty, abstract), numbered 1..n in the
\* order of the input and joined by a line feed; it never returns the empty
\* string.
C27_ContextBlocksInOrder ==
    (u_pc = "returned" /\ u_call.op = "format_context")
    => LET docs == u_call.documents
           n    == Len(docs)
       IN  /\ u_ret # ""
           /\ u_ret = "No relevant medical literature found." <=> n = 0
           /\ n > 0
              => /\ \A i \in 1..n :
                      StartsAt(u_ret, BlockStart(docs, i), LabelledBlock(i, docs[i]))
                 /\ \A i \in 2..n :
                      Char(u_ret, BlockStart(docs, i) - 1) = "\n"
                 /\ Len(u_ret)
                      = BlockStart(docs, n) + Len(LabelledBlock(n, docs[n])) - 1

\* C27 witness: documents 222 and 111, in this order, were written as blocks 1
\* and 2.
C27_Witness ==
    /\ u_pc = "returned"
    /\ u_call.op = "format_context"
    /\ [i \in 1..Len(u_call.documents) |-> u_call.documents[i].pmid.v]
         = <<"222", "111">>
    /\ StrIn("[Document 1]\nPMID: 222\n", u_ret)
    /\ StrIn("[Document 2]\nPMID: 111\n", u_ret)

\* the results held so far belong, in order, to the first questions
InOrderOf(results, qs) ==
    /\ Len(results) <= Len(qs)
    /\ \A k \in 1..Len(results) : results[k].question = qs[k]

\* C28: batch_query works through the questions one after the other: while
\* question i is being answered exactly i - 1 results have been appended, so
\* no query begins before the one before it has returned; the list returned
\* is as long as the list of questions and its i-th result carries the i-th
\* question, whatever the results are (blocked, empty, answered): none of
\* them ends the batch before the last question.
C28_BatchSequential ==
    /\ u_pc = "loop"
         => /\ InOrderOf(u_ret.results, u_call.questions)
            /\ Len(u_ret.results) = u_ret.i - (IF pc = "idle" THEN 0 ELSE 1)
            /\ pc # "idle" => question = u_call.questions[u_ret.i]
    /\ u_pc = "returned"
         => /\ Len(u_ret) = Len(u_call.questions)
            /\ InOrderOf(u_ret, u_call.questions)

\* C28 witness: a batch of two returned a blocked result, then an answer with
\* its source.
C28_Witness ==
    /\ u_pc = "returned"
    /\ u_call.op = "batch_query"
    /\ Len(u_ret) = 2
    /\ u_ret[1].sources = <<>>
    /\ u_ret[1].citations = <<>>
    /\ u_ret[1].answer = EmergencyWarning
    /\ u_ret[2].sources # <<>>

\* C29: on one answer and documents whose PMIDs are distinct strings,
\* extract_citations and verify_citations agree: the keys of the citation
\* mapping are the cited PMIDs that are source PMIDs, there are
\* valid_citations of them, valid_citations + len(invalid_citations) =
\* total_citations, and valid is true exactly when every cited PMID has its
\* key in the mapping; with nothing cited valid is true and citation_accuracy
\* is 0.
C29_ExtractAndVerifyAgree ==
    (/\ u_pc = "returned"
     /\ u_call.op = "cite_and_verify"
     /\ \A i \in 1..Len(u_call.documents) : u_call.documents[i].pmid.t = "str")
    => LET docs   == u_call.documents
           cited  == AnswerCites(u_call.segs)
           source == {docs[i].pmid.v : i \in 1..Len(docs)}
           keys   == DOMAIN u_ret.citations
           v      == u_ret.verification
       IN  /\ keys = cited \cap source
           /\ Cardinality(keys) = v.valid_citations
           /\ v.valid_citations + Cardinality(v.invalid_citations)
                = v.total_citations
           /\ v.valid <=> (\A c \in cited : c \in keys)
           /\ {x.v : x \in v.invalid_citations} = cited \ keys
           /\ cited = {}
              => /\ v.valid
                 /\ v.citation_accuracy.num = 0

\* C29 witness: of the two PMIDs cited one belongs to the documents: one key,
\* one valid and one invalid citation, valid is false.
C29_Witness ==
    /\ u_pc = "returned"
    /\ u_call.op = "cite_and_verify"
    /\ \A i \in 1..Len(u_call.documents) : u_call.documents[i].pmid.t = "str"
    /\ Cardinality(DOMAIN u_ret.citations) = 1
    /\ u_ret.verification.total_citations = 2
    /\ Cardinality(u_ret.verification.invalid_citations) = 1
    /\ ~u_ret.verification.valid

\* C29 witness of the empty case: nothing is cited, valid is true and the
\* accuracy is 0.
C29_WitnessNoCitation ==
    /\ u_pc = "returned"
    /\ u_call.op = "cite_and_verify"
    /\ u_call.documents # <<>>
    /\ \A i \in 1..Len(u_call.documents) : u_call.documents[i].pmid.t = "str"
    /\ u_ret.citations = <<>>
    /\ u_ret.verification.total_citations = 0
    /\ u_ret.verification.valid

\* C30: every assessment check_query_safety returns has safe = false exactly
\* when its risk level is critical; a critical assessment carries the
\* emergency warning and nothing else, also when diagnostic or treatment
\* phrases occur in the query; any other assessment carries one warning per
\* tier matched, none to two; and the risk level is low exactly when there is
\* no warning.
C30_AssessmentWellFormed ==
    (u_pc \in {"returned", "repeated"} /\ u_call.op = "check_query_safety")
    => LET q       == u_call.query
           matched == (IF MentionsDiagnosis(q) THEN 1 ELSE 0)
                      + (IF MentionsTreatment(q) THEN 1 ELSE 0)
       IN  /\ u_ret.risk_level \in {"low", "medium", "high", "critical"}
           /\ ~u_ret.safe <=> u_ret.risk_level = "critical"
           /\ u_ret.risk_level = "critical"
              => u_ret.warnings
                   = <<"EMERGENCY: This system is not for emergencies. "
                       \o "Call 911 or emergency services.">>
           /\ u_ret.risk_level # "critical"
              => /\ Len(u_ret.warnings) = matched
                 /\ Len(u_ret.warnings) \in 0..2
           /\ u_ret.risk_level = "low" <=> u_ret.warnings = <<>>

\* C30 witness: "Am i dying" matches the emergency and the diagnostic tier
\* and is assessed critical, with one warning.
C30_Witness ==
    /\ u_pc = "returned"
    /\ u_call.op = "check_query_safety"
    /\ MentionsEmergency(u_call.query)
    /\ MentionsDiagnosis(u_call.query)
    /\ u_ret.risk_level = "critical"
    /\ ~u_ret.safe
    /\ Len(u_ret.warnings) = 1

====
